---- MODULE Spec2Model ----
(***************************************************************************)
(* Model of the pantry-pal backend (src/backend/main.py).                  *)
(*                                                                         *)
(* Part 1: the ingredient canonicalizer, extract_main_ingredient.          *)
(* Part 2: the threshold estimator, calculate_dynamic_pmi_threshold.       *)
(* Part 3: the /compatibility/ handler, get_ingredient_compatibility.      *)
(* Part 4: two /compatibility/ requests served at the same time.           *)
(* Part 5: the handlers that write the users, pantry and comments tables.  *)
(*                                                                         *)
(* Text is modelled by TLA+ strings, which TLC treats as sequences of      *)
(* one-character strings (Len, SubSeq, Head, Tail and \o apply to them).   *)
(* Scores are exact rationals held as integers in units of 1/500 (Unit),   *)
(* so that 0.01 is 5 units and the linear interpolation of the 60th        *)
(* percentile between two scores given to 2 decimals is again an integer.  *)
(* Binary floating-point representation error is not modelled.             *)
(***************************************************************************)
EXTENDS Integers, Sequences, FiniteSets, TLC

VARIABLES
    \* ---- canonicalizer, applied on its own (SpecCanon) ----
    canon_pc,        \* "input" | "once" | "twice"
    raw,             \* the raw ingredient string
    cleaned,         \* the string after the whitespace collapse (main.py:588)
    canon,           \* extract_main_ingredient(raw)
    recanon          \* extract_main_ingredient(canon)

canon_vars == <<canon_pc, raw, cleaned, canon, recanon>>

VARIABLES
    \* ---- the environment of a /compatibility/ request ----
    users,           \* ids of the rows of the users table
    artifact,        \* the file compatibility_graph_new.pkl
    \* ---- the request ----
    pc,              \* "idle" | "request" | "responded"
    ingredient_list, \* the raw ingredients of the request body
    token,           \* the bearer token of the request
    \* ---- the handler's locals and its response ----
    ingredients,     \* ingredient_list.ingredients, canonicalized in place
    pantry,          \* the known tokens, in request order
    PMI_THRESHOLD,
    subgraph,        \* the edges of the nx.Graph, each a set {a, b}
    cliques,         \* what nx.find_cliques yields
    results,         \* the response body
    status,          \* the HTTP status, 0 while there is no response
    detail,          \* the detail of an error response
    loads            \* how many times the handler has opened the artifact

env_vars == <<users, artifact>>
request_vars == <<pc, ingredient_list, token>>
handler_vars ==
    <<ingredients, pantry, PMI_THRESHOLD, subgraph, cliques, results, status, detail,
      loads>>

VARIABLES
    \* ---- two /compatibility/ requests served at the same time (SpecConc) ----
    reqs,            \* per request: its position, its body and token, its response
    locals           \* per call frame: the local variables of the handler

conc_vars == <<reqs, locals>>

VARIABLES
    \* ---- the database and the handlers that write it (SpecComments, ...) ----
    user_rows,       \* the rows of the users table
    pantry_rows,     \* the rows of the pantry table
    comment_rows,    \* the rows of the comments table
    calls,           \* per worker: the request it serves and the session it holds
    reply,           \* the last response sent: the handler and the HTTP status
    before           \* the tables as they were when the step that replied began

db_vars == <<user_rows, pantry_rows, comment_rows, calls, reply, before>>

vars == <<canon_vars, env_vars, request_vars, handler_vars, conc_vars, db_vars>>

-----------------------------------------------------------------------------
(* Characters                                                              *)

CharAt(s, i) == SubSeq(s, i, i)

CharsOf(s) == {CharAt(s, i) : i \in 1..Len(s)}

LowerLetters == "abcdefghijklmnopqrstuvwxyz"
UpperLetters == "ABCDEFGHIJKLMNOPQRSTUVWXYZ"
Digits == "0123456789"

\* \d, \s and \w of Python's re module, restricted to ASCII
DigitChars == CharsOf(Digits)
SpaceChars == {" ", "\t", "\n", "\r", "\f"}
WordChars == CharsOf(LowerLetters) \cup CharsOf(UpperLetters) \cup DigitChars \cup {"_"}

\* str.lower() on one character
ToLower == [c \in CharsOf(UpperLetters) |->
              CharAt(LowerLetters, CHOOSE i \in 1..26 : CharAt(UpperLetters, i) = c)]

RECURSIVE lower(_)
lower(s) ==
    IF s = "" THEN ""
    ELSE (IF Head(s) \in DOMAIN ToLower THEN ToLower[Head(s)] ELSE Head(s))
         \o lower(Tail(s))

\* index after the maximal run of characters of class C that starts at i
RECURSIVE run_end(_, _, _)
run_end(s, i, C) ==
    IF i <= Len(s) /\ CharAt(s, i) \in C THEN run_end(s, i + 1, C) ELSE i

\* \b at the position between s[p-1] and s[p]
IsWordAt(s, p) == p >= 1 /\ p <= Len(s) /\ CharAt(s, p) \in WordChars
WordBoundary(s, p) == IsWordAt(s, p - 1) # IsWordAt(s, p)

-----------------------------------------------------------------------------
(* extract_main_ingredient, main.py:565-673                                *)

forms == <<
    "shredded", "grated", "minced", "chopped", "diced", "ground", "crushed",
    "sliced", "fresh", "frozen", "canned", "whole", "boneless", "skinless",
    "bone-in", "skin-on", "salted", "unsalted", "organic", "large", "medium",
    "small", "tinned", "smoked", "unsmoked", "lean", "hearty", "flowerets",
    "florets", "skim", "skimmed", "whole", "cooked", "roast", "roasted",
    "baked", "hot", "cold", "dried", "raw", "peeled", "seeded", "stemmed",
    "pitted", "cored", "juiced", "zested", "melted", "softened", "hardened",
    "powdered", "granulated", "crumbled", "cubed", "quartered", "halved",
    "mashed", "whipped", "beaten", "stiff", "divided", "optional", "to taste",
    "enriched", "iodized", "substitute", "wholewheat", "new", "kosher", "powdered",
    "instant", "freshly", "cracked", "curls" >>

\* re.sub(r'\(.*?\)', '', s): from each "(" to the nearest ")" on the same line
RECURSIVE close_paren(_, _)
close_paren(s, j) ==
    IF j > Len(s) \/ CharAt(s, j) = "\n" THEN 0
    ELSE IF CharAt(s, j) = ")" THEN j
    ELSE close_paren(s, j + 1)

RECURSIVE sub_brackets_from(_, _)
sub_brackets_from(s, i) ==
    IF i > Len(s) THEN ""
    ELSE IF CharAt(s, i) = "(" /\ close_paren(s, i + 1) > 0
         THEN sub_brackets_from(s, close_paren(s, i + 1) + 1)
         ELSE CharAt(s, i) \o sub_brackets_from(s, i + 1)

sub_brackets(s) == sub_brackets_from(s, 1)

\* re.sub(rf'\b{form}\b', '', s): every whole-word occurrence, left to right
form_at(form, s, i) ==
    /\ i + Len(form) - 1 <= Len(s)
    /\ SubSeq(s, i, i + Len(form) - 1) = form
    /\ WordBoundary(s, i)
    /\ WordBoundary(s, i + Len(form))

RECURSIVE sub_form_from(_, _, _)
sub_form_from(form, s, i) ==
    IF i > Len(s) THEN ""
    ELSE IF form_at(form, s, i) THEN sub_form_from(form, s, i + Len(form))
    ELSE CharAt(s, i) \o sub_form_from(form, s, i + 1)

sub_form(form, s) == sub_form_from(form, s, 1)

\* for form in forms: ingredient = re.sub(...)   (main.py:583-584); the empty
\* string is left as it is by every remaining substitution
RECURSIVE sub_forms_from(_, _)
sub_forms_from(s, k) ==
    IF s = "" \/ k > Len(forms) THEN s
    ELSE sub_forms_from(sub_form(forms[k], s), k + 1)

sub_forms(s) == sub_forms_from(s, 1)

\* One match of \b\d+\s*\w*\b starting at the digit s[i]; the index after it.
\* The digits, then either the rest of the word, or the blanks and the word
\* after them; blanks that no word follows are given back (the final \b).
\* (variant: the digits alone, the unit is left in place)
measurement_end_digits(s, i) == run_end(s, i, DigitChars)

measurement_end(s, i) ==
    LET d == run_end(s, i, DigitChars)
        w == run_end(s, d, SpaceChars)
    IN  IF IsWordAt(s, w) THEN run_end(s, w, WordChars) ELSE d

RECURSIVE sub_measurements_from(_, _)
sub_measurements_from(s, i) ==
    IF i > Len(s) THEN ""
    ELSE IF CharAt(s, i) \in DigitChars /\ WordBoundary(s, i)
         THEN sub_measurements_from(s, measurement_end(s, i))
         ELSE CharAt(s, i) \o sub_measurements_from(s, i + 1)

sub_measurements(s) == sub_measurements_from(s, 1)

\* re.sub(r'\s+', ' ', s)
RECURSIVE sub_spaces_from(_, _)
sub_spaces_from(s, i) ==
    IF i > Len(s) THEN ""
    ELSE IF CharAt(s, i) \in SpaceChars
         THEN " " \o sub_spaces_from(s, run_end(s, i, SpaceChars))
         ELSE CharAt(s, i) \o sub_spaces_from(s, i + 1)

\* str.strip()
RECURSIVE rstrip_end(_, _)
rstrip_end(s, j) ==
    IF j >= 1 /\ CharAt(s, j) \in SpaceChars THEN rstrip_end(s, j - 1) ELSE j

strip(s) == SubSeq(s, run_end(s, 1, SpaceChars), rstrip_end(s, Len(s)))

\* (variant: the blanks at the ends are kept)
collapse_spaces_unstripped(s) == sub_spaces_from(s, 1)

collapse_spaces(s) == strip(sub_spaces_from(s, 1))

\* main.py:566-588: the string the rule tables are applied to
clean(ingredient) ==
    collapse_spaces(sub_measurements(sub_forms(sub_brackets(lower(ingredient)))))

\* similar_map, main.py:591-612, as (suffix, replacement) in dict order; the
\* second r'.*onion$' key of the literal overwrites the first in place.
similar_map == <<
    <<"cheese", "cheese">>, <<"oil", "oil">>, <<"milk", "milk">>,
    <<"cream", "cream">>, <<"vinegar", "vinegar">>, <<"chocolate", "chocolate">>,
    <<"yogurt", "yogurt">>, <<"flour", "flour">>, <<"sugar", "sugar">>,
    <<"salt", "salt">>, <<"pepper", "pepper">>, <<"peppers", "pepper">>,
    <<"onion", "onion">>, <<"garlic", "garlic">>, <<"tomato", "tomato">>,
    <<"chicken", "chicken">>, <<"beef", "beef">>, <<"pork", "pork">>,
    <<"cider", "cider">> >>

\* re.fullmatch(r'.*<suffix>$', s): s ends with the suffix and what precedes
\* it holds no newline
fullmatch_suffix(suffix, s) ==
    /\ Len(s) >= Len(suffix)
    /\ SubSeq(s, Len(s) - Len(suffix) + 1, Len(s)) = suffix
    /\ "\n" \notin CharsOf(SubSeq(s, 1, Len(s) - Len(suffix)))

\* main.py:614-617: the first pattern that matches replaces the string
RECURSIVE apply_similar_from(_, _)
apply_similar_from(s, k) ==
    IF k > Len(similar_map) THEN s
    ELSE IF fullmatch_suffix(similar_map[k][1], s) THEN similar_map[k][2]
    ELSE apply_similar_from(s, k + 1)

apply_similar(s) == apply_similar_from(s, 1)

\* replacements, main.py:620-668
replacements == <<
    <<"tomatoes", "tomato">>, <<"green onion", "scallion">>,
    <<"green onions", "scallions">>, <<"spring onions", "scallions">>,
    <<"mozzarella cheese", "mozzarella">>, <<"cheddar cheese", "cheddar">>,
    <<"feta cheese", "feta">>, <<"aubergine", "eggplant">>,
    <<"courgette", "zucchini">>, <<"rocket", "arugula">>,
    <<"coriander", "cilantro">>, <<"chips", "fries">>, <<"beetroot", "beet">>,
    <<"prawn", "shrimp">>, <<"all-purpose-flour", "flour">>,
    <<"all purpose flour", "flour">>, <<"plain flour", "flour">>,
    <<"corn flour", "cornstarch">>, <<"corn starch", "cornstarch">>,
    <<"broad beans", "fava beans">>, <<"mince beef", "ground beef">>,
    <<"minced beef", "ground beef">>, <<"mince pork", "ground pork">>,
    <<"minced pork", "ground pork">>, <<"mince chicken", "ground chicken">>,
    <<"minced chicken", "ground chicken">>, <<"tomato sauce", "ketchup">>,
    <<"tomato paste", "tomato">>, <<"tomato purée", "tomato">>,
    <<"whole milk", "milk">>, <<"semi-skimmed milk", "milk">>,
    <<"skimmed milk", "milk">>, <<"gherkin", "pickle">>,
    <<"gherkins", "pickles">>, <<"porridge oats", "oats">>,
    <<"porridge", "oats">>, <<"icing sugar", "powdered sugar">>,
    <<"confectioners sugar", "powdered sugar">>, <<"caster sugar", "sugar">>,
    <<"granulated sugar", "sugar">>, <<"brown sugar", "sugar">>,
    <<"white sugar", "sugar">>, <<"yogurt", "yoghurt">>,
    <<"yoghurt", "yoghurt">>, <<"natural yoghurt", "yoghurt">>,
    <<"vanilla extract", "vanilla">>, <<"vanilla essence", "vanilla">> >>

\* main.py:669-672: the first entry equal to the string replaces it
RECURSIVE apply_replacements_from(_, _)
apply_replacements_from(s, k) ==
    IF k > Len(replacements) THEN s
    ELSE IF replacements[k][1] = s THEN replacements[k][2]
    ELSE apply_replacements_from(s, k + 1)

apply_replacements(s) == apply_replacements_from(s, 1)

\* (variant: the exact-string table before the patterns)
extract_main_ingredient_exact_first(ingredient) ==
    apply_similar(apply_replacements(clean(ingredient)))

extract_main_ingredient(ingredient) ==
    apply_replacements(apply_similar(clean(ingredient)))

-----------------------------------------------------------------------------
(* The canonicalizer applied to bounded inputs                             *)

\* the number of words of a generated raw ingredient
MaxWords == 3

Words == {"to", "taste", "fresh", "2", "(x)", "Cheese", "tomatoes"}

\* the raw ingredients the specification names
NamedRaw == {"Shredded Cheddar Cheese", "2 cups plain flour", "Tomatoes (diced)",
             "cheddar cheese", "tomatoes", "flour", "durian", ""}

RECURSIVE Phrases(_)
Phrases(n) ==
    IF n = 1 THEN Words
    ELSE {p \o " " \o w : p \in Phrases(n - 1), w \in Words}

\* raw ingredients for the rule tables: a pattern and then an exact entry, a
\* pattern that shadows an exact entry, an exact entry alone
RuleRaw == {"Greek Yogurt", "green onion", "spring onions", "mozzarella cheese",
            "icing sugar", "Red Peppers", "tomato paste", "porridge oats", "Porridge"}

RawInputs == NamedRaw \cup RuleRaw \cup UNION {Phrases(n) : n \in 1..MaxWords}

CanonIdle ==
    /\ canon_pc = "idle"
    /\ raw = ""
    /\ cleaned = ""
    /\ canon = ""
    /\ recanon = ""

CanonInputs ==
    /\ canon_pc = "input"
    /\ raw \in RawInputs
    /\ cleaned = ""
    /\ canon = ""
    /\ recanon = ""

\* canon = extract_main_ingredient(raw)
Canonicalize ==
    /\ canon_pc = "input"
    /\ canon_pc' = "once"
    /\ cleaned' = clean(raw)
    /\ canon' = extract_main_ingredient(raw)
    /\ UNCHANGED <<raw, recanon, env_vars, request_vars, handler_vars, conc_vars, db_vars>>

\* recanon = extract_main_ingredient(canon)
Recanonicalize ==
    /\ canon_pc = "once"
    /\ canon_pc' = "twice"
    /\ recanon' = extract_main_ingredient(canon)
    /\ UNCHANGED <<raw, cleaned, canon, env_vars, request_vars, handler_vars, conc_vars, db_vars>>

CanonNext == Canonicalize \/ Recanonicalize

-----------------------------------------------------------------------------
(* Scores. A score of h hundredths is 5 * h units of 1/500.                *)

Hundredths(h) == 5 * h

Max(a, b) == IF a >= b THEN a ELSE b

\* ASCII, in code-point order: the order of Python's str comparison
Ascii == "\t\n\f\r ()-0123456789ABCDEFGHIJKLMNOPQRSTUVWXYZ_abcdefghijklmnopqrstuvwxyz"

Ord == [c \in CharsOf(Ascii) |-> CHOOSE i \in 1..Len(Ascii) : CharAt(Ascii, i) = c]

\* a <= b for Python strings
RECURSIVE str_le(_, _)
str_le(a, b) ==
    IF a = "" THEN TRUE
    ELSE IF b = "" THEN FALSE
    ELSE IF Head(a) = Head(b) THEN str_le(Tail(a), Tail(b))
    ELSE Ord[Head(a)] < Ord[Head(b)]

\* (variant: the pair as given)
sorted_pair_as_given(a, b) == <<a, b>>

\* tuple(sorted((a, b)))
sorted_pair(a, b) == IF str_le(a, b) THEN <<a, b>> ELSE <<b, a>>

\* itertools.combinations(seq, 2), as pairs of positions
combinations(seq) == {p \in (1..Len(seq)) \X (1..Len(seq)) : p[1] < p[2]}

pair_key(seq, p) == sorted_pair(seq[p[1]], seq[p[2]])

-----------------------------------------------------------------------------
(* calculate_dynamic_pmi_threshold, main.py:676-686                        *)

\* relevant_scores: one score for each pair of positions whose key is recorded
relevant_scores(pmi, ingredient_seq) ==
    [p \in {c \in combinations(ingredient_seq) :
                pair_key(ingredient_seq, c) \in DOMAIN pmi}
        |-> pmi[pair_key(ingredient_seq, p)]]

\* the element at 0-based position k of the scores in ascending order
sorted_at(scores, k) ==
    CHOOSE v \in {scores[x] : x \in DOMAIN scores} :
        /\ Cardinality({x \in DOMAIN scores : scores[x] < v}) <= k
        /\ Cardinality({x \in DOMAIN scores : scores[x] <= v}) > k

\* (variant: the lower neighbour, without interpolation)
np_percentile_lower(scores, q) ==
    sorted_at(scores, (q * (Cardinality(DOMAIN scores) - 1)) \div 100)

\* np.percentile(scores, q), linear interpolation: position q/100 * (n - 1)
np_percentile(scores, q) ==
    LET n == Cardinality(DOMAIN scores)
        lo == (q * (n - 1)) \div 100
        frac == (q * (n - 1)) % 100
        a == sorted_at(scores, lo)
        b == sorted_at(scores, IF lo + 1 < n THEN lo + 1 ELSE lo)
    IN  a + (frac * (b - a)) \div 100

\* (variant: the floor alone)
calculate_dynamic_pmi_threshold_fixed(pmi, ingredient_seq) ==
    LET scores == relevant_scores(pmi, ingredient_seq)
    IN  IF DOMAIN scores = {} THEN 0 ELSE Hundredths(30)

\* (variant: the percentile alone)
calculate_dynamic_pmi_threshold_no_floor(pmi, ingredient_seq) ==
    LET scores == relevant_scores(pmi, ingredient_seq)
    IN  IF DOMAIN scores = {} THEN 0 ELSE np_percentile(scores, 60)

calculate_dynamic_pmi_threshold(pmi, ingredient_seq) ==
    LET scores == relevant_scores(pmi, ingredient_seq)
    IN  IF DOMAIN scores = {} THEN 0
        ELSE Max(Hundredths(30), np_percentile(scores, 60))

-----------------------------------------------------------------------------
(* The steps of get_ingredient_compatibility, main.py:689-786              *)

MIN_CLIQUE_SIZE == 2
MAX_CLIQUE_SIZE == 10

\* (variant: a score equal to the threshold makes an edge)
build_subgraph_at_or_above(pmi, pantry_seq, threshold) ==
    {{pantry_seq[p[1]], pantry_seq[p[2]]} :
        p \in {c \in combinations(pantry_seq) :
                 /\ pair_key(pantry_seq, c) \in DOMAIN pmi
                 /\ pmi[pair_key(pantry_seq, c)] >= threshold}}

\* main.py:752-756: the edges added to the nx.Graph
build_subgraph(pmi, pantry_seq, threshold) ==
    {{pantry_seq[p[1]], pantry_seq[p[2]]} :
        p \in {c \in combinations(pantry_seq) :
                 /\ pair_key(pantry_seq, c) \in DOMAIN pmi
                 /\ pmi[pair_key(pantry_seq, c)] > threshold}}

\* nx.find_cliques (main.py:758): Bron-Kerbosch with a pivot. Q is the clique
\* so far, subg the nodes adjacent to all of Q, cand those of subg not yet
\* tried, ext the candidates outside the pivot's neighbourhood.
Adj(edges, u) == {v \in UNION edges : v # u /\ {u, v} \in edges}

pivot(edges, subg, cand) ==
    CHOOSE u \in subg : \A w \in subg :
        Cardinality(cand \cap Adj(edges, u)) >= Cardinality(cand \cap Adj(edges, w))

RECURSIVE expand(_, _, _, _, _)
expand(edges, Q, subg, cand, ext) ==
    IF ext = {} THEN {}
    ELSE LET q == CHOOSE x \in ext : TRUE
             subg_q == subg \cap Adj(edges, q)
             cand_q == (cand \ {q}) \cap Adj(edges, q)
         IN  (IF subg_q = {} THEN {Q \cup {q}}
              ELSE IF cand_q = {} THEN {}
              ELSE expand(edges, Q \cup {q}, subg_q, cand_q,
                          cand_q \ Adj(edges, pivot(edges, subg_q, cand_q))))
             \cup expand(edges, Q, subg, cand \ {q}, ext \ {q})

find_cliques(edges) ==
    LET nodes == UNION edges
    IN  IF nodes = {} THEN {}
        ELSE expand(edges, {}, nodes, nodes,
                    nodes \ Adj(edges, pivot(edges, nodes, nodes)))

\* (variant: no upper bound)
size_ok_no_maximum(clique) == ~(Cardinality(clique) < MIN_CLIQUE_SIZE)

\* main.py:765: the cliques that are scored
size_ok(clique) ==
    ~(Cardinality(clique) < MIN_CLIQUE_SIZE \/ Cardinality(clique) > MAX_CLIQUE_SIZE)

\* the unordered pairs of members, combinations(clique, 2)
member_pairs(clique) == {e \in SUBSET clique : Cardinality(e) = 2}

pair_score(pmi, e) ==
    LET a == CHOOSE x \in e : TRUE
        b == CHOOSE y \in e : y # a
    IN  IF sorted_pair(a, b) \in DOMAIN pmi THEN pmi[sorted_pair(a, b)] ELSE 0

\* total += pmi.get(key, 0)   (main.py:769-771)
RECURSIVE sum_scores(_, _)
sum_scores(pmi, es) ==
    IF es = {} THEN 0
    ELSE LET e == CHOOSE x \in es : TRUE
         IN  pair_score(pmi, e) + sum_scores(pmi, es \ {e})

\* round(total / count, 2): to the nearest hundredth, a tie to the even one
round_2dp(total, count) ==
    LET h == Hundredths(count)
        q == total \div h
        r == total % h
    IN  Hundredths(IF 2 * r < h THEN q
                   ELSE IF 2 * r > h THEN q + 1
                   ELSE IF q % 2 = 0 THEN q ELSE q + 1)

\* (variant: the total divided by the number of members)
clique_record_per_member(pmi, clique) ==
    [ingredients |-> clique,
     score |-> round_2dp(sum_scores(pmi, member_pairs(clique)), Cardinality(clique)),
     size |-> Cardinality(clique)]

\* main.py:767-782: one entry of results
clique_record(pmi, clique) ==
    [ingredients |-> clique,
     score |-> round_2dp(sum_scores(pmi, member_pairs(clique)),
                         Cardinality(member_pairs(clique))),
     size |-> Cardinality(clique)]

\* (variant: the key (-size, -score))
key_less_size_first(x, y) == x.size > y.size \/ (x.size = y.size /\ x.score > y.score)

\* main.py:784: x sorts before y under the key (-score, -size)
key_less(x, y) == x.score > y.score \/ (x.score = y.score /\ x.size > y.size)

\* list.sort is stable: an entry goes behind the entries it does not precede
RECURSIVE insert_sorted(_, _)
insert_sorted(x, sorted) ==
    IF sorted = <<>> THEN <<x>>
    ELSE IF key_less(x, Head(sorted)) THEN <<x>> \o sorted
    ELSE <<Head(sorted)>> \o insert_sorted(x, Tail(sorted))

RECURSIVE sort_results(_)
sort_results(seq) ==
    IF seq = <<>> THEN <<>>
    ELSE insert_sorted(seq[Len(seq)], sort_results(SubSeq(seq, 1, Len(seq) - 1)))

-----------------------------------------------------------------------------
(* The inputs of a /compatibility/ request                                 *)

\* the length of a generated pantry list
MaxPantry == 3

\* the tokens of the affinity table: every token of a recorded pair
Vocabulary(pmi) == {k[1] : k \in DOMAIN pmi} \cup {k[2] : k \in DOMAIN pmi}

LoadedArtifact(pmi) == [kind |-> "ok", pmi_scores |-> pmi, graph |-> Vocabulary(pmi)]

\* the file is absent, is no pickle, or unpickles to something else
BrokenArtifact(kind) == [kind |-> kind, pmi_scores |-> <<>>, graph |-> {}]

\* a pickle of {'pmi_scores': None, 'graph': <a graph of three tokens>}
UnscoredArtifact ==
    [kind |-> "unscored", pmi_scores |-> <<>>, graph |-> {"cheddar", "tomato", "flour"}]

BrokenArtifacts ==
    {BrokenArtifact(k) : k \in {"missing", "unpicklable", "misshapen"}} \cup {UnscoredArtifact}

\* the keys of a table on the tokens: each pair once, the smaller token first
SortedPairs(tokens) == {p \in tokens \X tokens : p[1] # p[2] /\ str_le(p[1], p[2])}

\* Small pantries: every list of up to MaxPantry raw ingredients over every
\* table on three tokens.
SmallPool == {"cheddar cheese", "cheddar", "tomatoes", "flour"}

SmallLists == UNION {[1..n -> SmallPool] : n \in 0..MaxPantry}

SmallLevels == {Hundredths(10), Hundredths(20), Hundredths(80)}

SmallTables ==
    UNION {[D -> SmallLevels] : D \in SUBSET SortedPairs({"cheddar", "tomato", "flour"})}

\* A full pantry of seven ingredients: every table on the four core tokens,
\* with a low score recorded for every pair that involves one of the others
\* (so that the 60th percentile is low and the threshold is the floor, 0.3).
FullPantry ==
    <<"tomatoes", "plain flour", "salt", "brown sugar", "olive oil", "whole milk", "cream">>

CoreTokens == {"tomato", "flour", "salt", "sugar"}
OtherTokens == {"oil", "milk", "cream"}

CoreLevels == {Hundredths(30), Hundredths(80), Hundredths(90)}

FullTables ==
    LET low == [k \in SortedPairs(CoreTokens \cup OtherTokens) \ SortedPairs(CoreTokens)
                  |-> Hundredths(10)]
    IN  UNION {{core @@ low : core \in [D -> CoreLevels]} :
                  D \in SUBSET SortedPairs(CoreTokens)}

\* Five recorded pairs with the scores 0.1, 0.2, 0.3, 0.9 and 1.0
FiveScoresPantry == <<"flour", "salt", "sugar", "tomatoes">>

FiveScoresTable ==
    (<<"flour", "salt">> :> Hundredths(10)) @@ (<<"flour", "sugar">> :> Hundredths(20))
    @@ (<<"flour", "tomato">> :> Hundredths(30)) @@ (<<"salt", "sugar">> :> Hundredths(90))
    @@ (<<"salt", "tomato">> :> Hundredths(100))

\* Eighteen tokens, eleven of which go together pairwise
LargeGroup == {"cheese", "oil", "milk", "cream", "vinegar", "chocolate", "flour",
               "sugar", "salt", "pepper", "onion"}
LargeRest == {"garlic", "tomato", "chicken", "beef", "pork", "cider", "oats"}

LargePantry ==
    <<"cheese", "oil", "milk", "cream", "vinegar", "chocolate", "flour", "sugar", "salt",
      "pepper", "onion", "garlic", "tomato", "chicken", "beef", "pork", "cider", "oats">>

LargeTable ==
    [k \in SortedPairs(LargeGroup \cup LargeRest) |->
        IF k \in SortedPairs(LargeGroup) THEN Hundredths(90) ELSE Hundredths(10)]

Range(seq) == {seq[i] : i \in 1..Len(seq)}

\* the list with x put in before position i
InsertAt(list, i, x) == SubSeq(list, 1, i - 1) \o <<x>> \o SubSeq(list, i, Len(list))

\* An artifact whose graph lacks the token "salt" although the table records
\* pairs of it: every table with all pairs of the three tokens recorded, and
\* a high score for each pair with salt.
PrunedArtifact(pmi) ==
    [kind |-> "ok", pmi_scores |-> pmi, graph |-> Vocabulary(pmi) \ {"salt"}]

PrunedTables ==
    LET salted == [k \in {<<"cheddar", "salt">>, <<"flour", "salt">>, <<"salt", "tomato">>}
                     |-> Hundredths(90)]
    IN  {t @@ salted : t \in {u \in SmallTables :
                                DOMAIN u = SortedPairs({"cheddar", "tomato", "flour"})}}

PrunedLists == {InsertAt(<<"cheddar", "tomatoes", "flour">>, i, "salt") : i \in 1..4}

\* Pantries with an ingredient outside every vocabulary and with one whose
\* canonical token is the empty string
UnmatchedPool ==
    {"durian", "2 fresh", "to taste (x)", "Bone-In 12 Kosher", "cheddar", "tomatoes"}

UnmatchedLists ==
    UNION {[1..n -> UnmatchedPool] : n \in 1..2}
    \cup {InsertAt(<<"cheddar", "tomatoes", "flour">>, i, x) :
             i \in 1..4, x \in UnmatchedPool \ {"cheddar", "tomatoes"}}

\* The three tokens with one of the raw ingredients supplied once more
RepeatedLists == {<<"cheddar", "tomatoes", "flour", r>> : r \in SmallPool}

RawPool ==
    SmallPool \cup Range(FullPantry) \cup Range(FiveScoresPantry) \cup Range(LargePantry)
    \cup UnmatchedPool

\* extract_main_ingredient on the raw ingredients of the requests
canonical == [r \in RawPool |-> extract_main_ingredient(r)]

Requests ==
    {[list |-> l, file |-> LoadedArtifact(t)] : l \in SmallLists, t \in SmallTables}
    \cup {[list |-> l, file |-> f] : l \in SmallLists, f \in BrokenArtifacts}
    \cup {[list |-> FullPantry, file |-> LoadedArtifact(t)] : t \in FullTables}
    \cup {[list |-> l, file |-> PrunedArtifact(t)] : l \in PrunedLists, t \in PrunedTables}
    \cup {[list |-> l, file |-> LoadedArtifact(t)] : l \in UnmatchedLists, t \in SmallTables}
    \cup {[list |-> l, file |-> LoadedArtifact(t)] : l \in RepeatedLists, t \in SmallTables}
    \cup {[list |-> FiveScoresPantry, file |-> LoadedArtifact(FiveScoresTable)],
          [list |-> LargePantry, file |-> LoadedArtifact(LargeTable)]}

\* a token is good when its signature verifies and it has not expired
Tokens == {[good |-> TRUE, user_id |-> 1], [good |-> TRUE, user_id |-> 2],
           [good |-> FALSE, user_id |-> 1]}

\* the requests served at the same time
Req == {1, 2}

\* (variant: one set of local variables for every call)
frame_shared(r) == 1

\* a call of the handler has its own parameters and local variables
frame(r) == r

NotLoaded == BrokenArtifact("none")

EmptyFrame ==
    [ingredients |-> <<>>, data |-> NotLoaded, pantry |-> <<>>, PMI_THRESHOLD |-> 0,
     subgraph |-> {}, cliques |-> {}]

NoRequest ==
    [pc |-> "idle", body |-> <<>>, token |-> [good |-> FALSE, user_id |-> 1],
     status |-> 0, detail |-> "", results |-> <<>>]

\* no request has reached the database handlers
NoCall == [pc |-> "idle"]

NoReply == [op |-> "none", status |-> 0, raised |-> 0]

NoTables == [users |-> {}, pantry |-> {}, comments |-> {}]

Worker == {1, 2}

DbIdle ==
    /\ user_rows = {}
    /\ pantry_rows = {}
    /\ comment_rows = {}
    /\ calls = [w \in Worker |-> NoCall]
    /\ reply = NoReply
    /\ before = NoTables

ConcIdle ==
    /\ reqs = [r \in Req |-> NoRequest]
    /\ locals = [r \in Req |-> EmptyFrame]

HandlerIdle ==
    /\ ingredients = <<>>
    /\ pantry = <<>>
    /\ PMI_THRESHOLD = 0
    /\ subgraph = {}
    /\ cliques = {}
    /\ results = <<>>
    /\ status = 0
    /\ detail = ""
    /\ loads = 0

CompatIdle ==
    /\ ConcIdle
    /\ users = {}
    /\ artifact = BrokenArtifact("missing")
    /\ pc = "idle"
    /\ ingredient_list = <<>>
    /\ token = [good |-> FALSE, user_id |-> 1]
    /\ HandlerIdle

CompatInputs ==
    /\ ConcIdle
    /\ users = {1}
    /\ pc = "request"
    /\ \E r \in Requests : ingredient_list = r.list /\ artifact = r.file
    /\ token \in Tokens
    /\ HandlerIdle

-----------------------------------------------------------------------------
(* get_ingredient_compatibility, main.py:689-786                           *)

\* the orders in which a set can be listed
Orderings(S) ==
    {o \in [1..Cardinality(S) -> S] : \A x \in S : \E i \in 1..Cardinality(S) : o[i] = x}

\* main.py:699-703
canonicalized(list) == [i \in 1..Len(list) |-> canonical[list[i]]]

\* main.py:708-725: decode_access_token, then the lookup of the user
authenticated(tok, user_ids) == tok.good /\ tok.user_id \in user_ids

\* (variant: every ingredient is kept)
known_all(ingredient_seq, G_full) == ingredient_seq

\* main.py:746
known(ingredient_seq, G_full) == SelectSeq(ingredient_seq, LAMBDA ing : ing \in G_full)

\* (variant: a clique above the maximum is cut down to the maximum)
scored_truncating(pmi, o) ==
    LET kept == SelectSeq(o, LAMBDA c : Cardinality(c) >= MIN_CLIQUE_SIZE)
        cut(c) == IF Cardinality(c) <= MAX_CLIQUE_SIZE THEN c
                  ELSE CHOOSE d \in SUBSET c : Cardinality(d) = MAX_CLIQUE_SIZE
    IN  [i \in 1..Len(kept) |-> clique_record(pmi, cut(kept[i]))]

\* main.py:763-782, for the cliques listed in the order o
scored(pmi, o) ==
    LET kept == SelectSeq(o, LAMBDA c : size_ok(c) /\ member_pairs(c) # {})
    IN  [i \in 1..Len(kept) |-> clique_record(pmi, kept[i])]

\* (variant: one handler for every failure of the load)
open_artifact_one_handler(file) ==
    IF file.kind \in {"missing", "unpicklable"} THEN "Exception" ELSE "data"

\* main.py:728-740: what open and pickle.load give
open_artifact(file) ==
    IF file.kind = "missing" THEN "FileNotFoundError"
    ELSE IF file.kind = "unpicklable" THEN "Exception"
    ELSE "data"

Respond(code, text) ==
    /\ status' = code
    /\ detail' = text
    /\ pc' = "responded"

get_ingredient_compatibility ==
    /\ pc = "request"
    /\ ingredients' = canonicalized(ingredient_list)
    /\ UNCHANGED <<canon_vars, env_vars, ingredient_list, token, conc_vars, db_vars>>
    /\ loads' = IF authenticated(token, users) THEN 1 ELSE 0
    /\ IF ~authenticated(token, users)
       THEN /\ Respond(401, "Auth error")
            /\ UNCHANGED <<pantry, PMI_THRESHOLD, subgraph, cliques, results>>
       ELSE IF open_artifact(artifact) = "FileNotFoundError"
       THEN /\ Respond(503, "Compatibility data not found")
            /\ UNCHANGED <<pantry, PMI_THRESHOLD, subgraph, cliques, results>>
       ELSE IF open_artifact(artifact) = "Exception"
       THEN /\ Respond(500, "Error loading compatibility data")
            /\ UNCHANGED <<pantry, PMI_THRESHOLD, subgraph, cliques, results>>
       ELSE IF artifact.kind = "misshapen"
       THEN \* data['pmi_scores'] or data['graph'] raises, and nothing handles it
            /\ Respond(500, "Internal Server Error")
            /\ UNCHANGED <<pantry, PMI_THRESHOLD, subgraph, cliques, results>>
       ELSE IF /\ artifact.kind = "unscored"
               /\ Len(known(canonicalized(ingredient_list), artifact.graph)) >= 2
       THEN \* `key in pmi` (main.py:679) raises for the first pair of the pantry
            /\ pantry' = known(canonicalized(ingredient_list), artifact.graph)
            /\ Respond(500, "Internal Server Error")
            /\ UNCHANGED <<PMI_THRESHOLD, subgraph, cliques, results>>
       ELSE LET pmi == artifact.pmi_scores
                G_full == artifact.graph
                present == known(canonicalized(ingredient_list), G_full)
                threshold == calculate_dynamic_pmi_threshold(pmi, present)
                edges == build_subgraph(pmi, present, threshold)
                found == find_cliques(edges)
            IN  /\ pantry' = present
                /\ PMI_THRESHOLD' = threshold
                /\ subgraph' = edges
                /\ cliques' = found
                /\ \/ \E o \in Orderings(found) :
                        /\ results' = sort_results(scored(pmi, o))
                        /\ Respond(200, "")
                   \/ \* community.greedy_modularity_communities (main.py:761) on
                      \* a graph without edges raises in the networkx releases
                      \* that divide by the number of edges; nothing handles it
                      /\ edges = {}
                      /\ results' = <<>>
                      /\ Respond(500, "Internal Server Error")

Next == get_ingredient_compatibility

Init == CanonIdle /\ CompatInputs /\ DbIdle

Spec == Init /\ [][Next]_vars

CanonInit == CanonInputs /\ CompatIdle /\ DbIdle

SpecCanon == CanonInit /\ [][CanonNext]_vars

-----------------------------------------------------------------------------
(* Two requests in the thread pool: get_ingredient_compatibility is a plain *)
(* def, so each call runs in a worker thread with a frame of its own.       *)

ConcLists ==
    {<<>>, <<"tomatoes", "flour">>, <<"cheddar", "tomatoes", "flour">>,
     <<"flour", "cheddar cheese", "tomatoes">>}

ConcTables ==
    {(<<"cheddar", "tomato">> :> Hundredths(80)) @@ (<<"cheddar", "flour">> :> Hundredths(20))
        @@ (<<"flour", "tomato">> :> Hundredths(10)),
     (<<"cheddar", "tomato">> :> Hundredths(80)) @@ (<<"cheddar", "flour">> :> Hundredths(80))
        @@ (<<"flour", "tomato">> :> Hundredths(20))}

ConcArtifacts == {LoadedArtifact(t) : t \in ConcTables} \cup BrokenArtifacts

ConcInit ==
    /\ CanonIdle
    /\ pc = "idle"
    /\ ingredient_list = <<>>
    /\ token = [good |-> FALSE, user_id |-> 1]
    /\ HandlerIdle
    /\ users = {1}
    /\ artifact \in ConcArtifacts
    /\ reqs \in [Req -> {[pc |-> "start", body |-> l, token |-> t,
                          status |-> 0, detail |-> "", results |-> <<>>] :
                            l \in ConcLists, t \in Tokens}]
    /\ locals = [r \in Req |-> EmptyFrame]
    /\ DbIdle

Answer(r, code, text, body) ==
    reqs' = [reqs EXCEPT ![r].pc = "responded", ![r].status = code,
                         ![r].detail = text, ![r].results = body]

Goto(r, position) == reqs' = [reqs EXCEPT ![r].pc = position]

\* main.py:699-703: the ingredients of the request body, canonicalized in place
canonicalize_in_place(r) ==
    /\ reqs[r].pc = "start"
    /\ locals' = [locals EXCEPT ![frame(r)].ingredients = canonicalized(reqs[r].body)]
    /\ Goto(r, "verify")
    /\ UNCHANGED <<canon_vars, env_vars, request_vars, handler_vars, db_vars>>

\* main.py:708-725
verify_user(r) ==
    /\ reqs[r].pc = "verify"
    /\ IF authenticated(reqs[r].token, users)
       THEN Goto(r, "load")
       ELSE Answer(r, 401, "Auth error", <<>>)
    /\ UNCHANGED <<canon_vars, env_vars, request_vars, handler_vars, locals, db_vars>>

\* main.py:728-744
load_data(r) ==
    /\ reqs[r].pc = "load"
    /\ IF open_artifact(artifact) = "FileNotFoundError"
       THEN Answer(r, 503, "Compatibility data not found", <<>>) /\ UNCHANGED locals
       ELSE IF open_artifact(artifact) = "Exception"
       THEN Answer(r, 500, "Error loading compatibility data", <<>>) /\ UNCHANGED locals
       ELSE IF artifact.kind = "misshapen"
       THEN Answer(r, 500, "Internal Server Error", <<>>) /\ UNCHANGED locals
       ELSE /\ locals' = [locals EXCEPT ![frame(r)].data = artifact]
            /\ Goto(r, "compute")
    /\ UNCHANGED <<canon_vars, env_vars, request_vars, handler_vars, db_vars>>

\* main.py:746-786
compute_cliques(r) ==
    /\ reqs[r].pc = "compute"
    /\ LET my == locals[frame(r)]
           pmi == my.data.pmi_scores
           present == known(my.ingredients, my.data.graph)
           threshold == calculate_dynamic_pmi_threshold(pmi, present)
           edges == build_subgraph(pmi, present, threshold)
           found == find_cliques(edges)
       IN  IF my.data.kind = "unscored" /\ Len(present) >= 2
           THEN /\ locals' = [locals EXCEPT ![frame(r)].pantry = present]
                /\ Answer(r, 500, "Internal Server Error", <<>>)
           ELSE /\ locals' = [locals EXCEPT ![frame(r)].pantry = present,
                                            ![frame(r)].PMI_THRESHOLD = threshold,
                                            ![frame(r)].subgraph = edges,
                                            ![frame(r)].cliques = found]
                /\ \/ \E o \in Orderings(found) :
                        Answer(r, 200, "", sort_results(scored(pmi, o)))
                   \/ edges = {} /\ Answer(r, 500, "Internal Server Error", <<>>)
    /\ UNCHANGED <<canon_vars, env_vars, request_vars, handler_vars, db_vars>>

ConcNext ==
    \E r \in Req :
        canonicalize_in_place(r) \/ verify_user(r) \/ load_data(r) \/ compute_cliques(r)

SpecConc == ConcInit /\ [][ConcNext]_vars

-----------------------------------------------------------------------------
(* Properties                                                              *)

\* the request was answered with a result
Served == pc = "responded" /\ status = 200

\* the handler got as far as the threshold and the subgraph
Computed ==
    pc = "responded" /\ authenticated(token, users) /\ artifact.kind = "ok"

Score(a, b) == artifact.pmi_scores[sorted_pair(a, b)]
Recorded(a, b) == sorted_pair(a, b) \in DOMAIN artifact.pmi_scores

\* C1's affinity table
EndToEndTable ==
    (<<"cheddar", "tomato">> :> Hundredths(80)) @@ (<<"cheddar", "flour">> :> Hundredths(20))
    @@ (<<"flour", "tomato">> :> Hundredths(10))

EndToEndRequest ==
    /\ ingredient_list = <<"cheddar cheese", "tomatoes", "flour">>
    /\ artifact = LoadedArtifact(EndToEndTable)
    /\ authenticated(token, users)

\* C1: for the pantry ["cheddar cheese", "tomatoes", "flour"] and the table
\* {cheddar,tomato}=0.8, {cheddar,flour}=0.2, {tomato,flour}=0.1 the response
\* is exactly one clique, {cheddar, tomato}, with score 0.8 and size 2, and
\* flour is in no returned clique.
C1_EndToEnd ==
    (pc = "responded" /\ EndToEndRequest) =>
        /\ status = 200
        /\ results = <<[ingredients |-> {"cheddar", "tomato"},
                        score |-> Hundredths(80), size |-> 2]>>
        /\ \A i \in 1..Len(results) : "flour" \notin results[i].ingredients

\* C2: "Shredded Cheddar Cheese" canonicalizes to "cheddar".
C2_ShreddedCheddarCheese ==
    (canon_pc = "once" /\ raw = "Shredded Cheddar Cheese") => canon = "cheddar"

\* C3: "2 cups plain flour" canonicalizes to "flour" and "Tomatoes (diced)" to
\* "tomato"; the quantity with its unit and the parenthesised text are gone
\* from the string the pattern and exact-string rules are applied to.
C3_QuantityAndBrackets ==
    canon_pc = "once" =>
        /\ raw = "2 cups plain flour" => (cleaned = "plain flour" /\ canon = "flour")
        /\ raw = "Tomatoes (diced)" => (cleaned = "tomatoes" /\ canon = "tomato")

C3_Witness ==
    canon_pc = "once" /\ raw = "2 cups plain flour" /\ cleaned = "plain flour"
    /\ canon = "flour"

\* C4: canonicalizing a canonical token gives the same token, for every input.
C4_Idempotent == canon_pc = "twice" => recanon = canon

\* the scores the estimator collects, as a position-indexed family
C5_Collected ==
    [p \in {c \in combinations(pantry) : Recorded(pantry[c[1]], pantry[c[2]])}
        |-> Score(pantry[p[1]], pantry[p[2]])]

\* The collected scores in ascending order: the score at 0-based position k
\* is the one that k others precede, equal scores taken in order of position.
C5_Precedes(family, y, x) ==
    \/ family[y] < family[x]
    \/ family[y] = family[x] /\ (y[1] < x[1] \/ (y[1] = x[1] /\ y[2] < x[2]))

C5_At(family, k) ==
    family[CHOOSE x \in DOMAIN family :
              Cardinality({y \in DOMAIN family : C5_Precedes(family, y, x)}) = k]

\* C5: the threshold is 0.0 when no pair of the present tokens has a recorded
\* score, and otherwise max(0.3, p) with p the 60th percentile of the collected
\* scores by linear interpolation: with the n scores in ascending order
\* s[0..n-1] and 0.6 * (n - 1) = k + f, p = s[k] + f * (s[k+1] - s[k]). For the
\* scores 0.1, 0.2, 0.3, 0.9, 1.0 it is 0.54.
C5_Threshold ==
    Computed =>
        \A s \in {C5_Collected} :
        LET n == Cardinality(DOMAIN s)
            k == (6 * (n - 1)) \div 10
            f == (6 * (n - 1)) % 10
            p10 == 10 * C5_At(s, k)
                   + (IF f = 0 THEN 0 ELSE f * (C5_At(s, k + 1) - C5_At(s, k)))
        IN  /\ n = 0 => PMI_THRESHOLD = 0
            /\ n > 0 => 10 * PMI_THRESHOLD = Max(10 * Hundredths(30), p10)
            /\ (ingredient_list = FiveScoresPantry
                    /\ artifact = LoadedArtifact(FiveScoresTable))
                 => (/\ n = 5
                     /\ <<C5_At(s, 0), C5_At(s, 1), C5_At(s, 2), C5_At(s, 3), C5_At(s, 4)>>
                          = <<Hundredths(10), Hundredths(20), Hundredths(30),
                              Hundredths(90), Hundredths(100)>>
                     /\ PMI_THRESHOLD = Hundredths(54))

C5_Witness ==
    /\ Computed
    /\ ingredient_list = FiveScoresPantry
    /\ artifact = LoadedArtifact(FiveScoresTable)
    /\ PMI_THRESHOLD = Hundredths(54)

\* C6: every edge of the subgraph joins two tokens whose recorded score is
\* strictly greater than the request's threshold.
C6_EdgesAboveThreshold ==
    Computed =>
        \A e \in subgraph : \E a, b \in e :
            /\ e = {a, b}
            /\ a # b
            /\ Recorded(a, b)
            /\ Score(a, b) > PMI_THRESHOLD

\* a subgraph with an edge, beside a pair at the threshold and a pair without
\* a score, neither of them an edge
C6_Witness ==
    /\ Computed
    /\ subgraph # {}
    /\ \E i, j \in 1..Len(pantry) :
          /\ Recorded(pantry[i], pantry[j])
          /\ Score(pantry[i], pantry[j]) = PMI_THRESHOLD
          /\ {pantry[i], pantry[j]} \notin subgraph
    /\ \E i, j \in 1..Len(pantry) :
          /\ pantry[i] # pantry[j]
          /\ ~Recorded(pantry[i], pantry[j])
          /\ {pantry[i], pantry[j]} \notin subgraph

Returned == {results[i].ingredients : i \in 1..Len(results)}

\* C7: every returned clique is a maximal clique of the subgraph, and none is
\* a strict subset of another.
C7_MaximalCliques ==
    Served =>
        \A c \in Returned :
            /\ \A a, b \in c : a # b => {a, b} \in subgraph
            /\ ~\E n \in (UNION subgraph) \ c : \A a \in c : {a, n} \in subgraph
            /\ ~\E d \in Returned : c \subseteq d /\ c # d

\* a triangle returned beside a clique that shares a member with it
C7_Witness ==
    /\ Served
    /\ \E c, d \in Returned :
          Cardinality(c) = 3 /\ c # d /\ c \cap d # {}

\* C8: a returned clique has 2 to 10 members and its size is its member
\* count; a maximal clique of more than 10 members contributes nothing to the
\* result, neither itself nor a part of it.
C8_SizeBounds ==
    Served =>
        /\ \A i \in 1..Len(results) :
              /\ Cardinality(results[i].ingredients) >= 2
              /\ Cardinality(results[i].ingredients) <= 10
              /\ results[i].size = Cardinality(results[i].ingredients)
        /\ \A c \in cliques : Cardinality(c) > 10 =>
              ~\E d \in Returned : d \subseteq c

\* a clique of 11 was found and nothing of it is returned
C8_Witness ==
    /\ Served
    /\ \E c \in cliques : Cardinality(c) = 11
    /\ results = <<>>

\* C9: of two returned cliques the earlier has the higher score or, at equal
\* scores, at least the size of the later.
C9_Ranking ==
    Served =>
        \A i, j \in 1..Len(results) : i < j =>
            \/ results[i].score > results[j].score
            \/ /\ results[i].score = results[j].score
               /\ results[i].size >= results[j].size

\* two returned cliques of equal score, the larger one first
C9_Witness ==
    /\ Served
    /\ \E i, j \in 1..Len(results) :
          i < j /\ results[i].score = results[j].score
                /\ results[i].size > results[j].size

\* the sum of the table's scores over the pairs a < b of a clique
RECURSIVE C10_Total(_)
C10_Total(ps) ==
    IF ps = {} THEN 0
    ELSE LET p == CHOOSE x \in ps : TRUE
         IN  (IF p \in DOMAIN artifact.pmi_scores THEN artifact.pmi_scores[p] ELSE 0)
             + C10_Total(ps \ {p})

\* C10: the score of a returned clique is the mean of the table's scores over
\* the unordered pairs of its members (0 for a pair without a score), to 2
\* decimal places: a whole number of hundredths within half a hundredth of
\* the mean.
C10_MeanScore ==
    Served =>
        \A i \in 1..Len(results) :
            LET c == results[i].ingredients
                total == C10_Total(SortedPairs(c))
                count == Cardinality(SortedPairs(c))
            IN  /\ results[i].score % Hundredths(1) = 0
                /\ 2 * (results[i].score * count - total) <= Hundredths(1) * count
                /\ 2 * (total - results[i].score * count) <= Hundredths(1) * count

\* a clique of 3 whose mean is not a whole number of hundredths
C10_Witness ==
    /\ Served
    /\ \E i \in 1..Len(results) :
          /\ results[i].size = 3
          /\ C10_Total(SortedPairs(results[i].ingredients)) % Hundredths(3) # 0

\* What the handler computes from a list of raw ingredients and the loaded
\* artifact: the pantry, the threshold, the edges and the set of records.
Alone(list) ==
    LET pmi == artifact.pmi_scores
        present == known(canonicalized(list), artifact.graph)
        threshold == calculate_dynamic_pmi_threshold(pmi, present)
        edges == build_subgraph(pmi, present, threshold)
        found == find_cliques(edges)
    IN  [pantry |-> present, threshold |-> threshold, subgraph |-> edges,
         records |-> Range(scored(pmi, CHOOSE o \in Orderings(found) : TRUE))]

\* the request's list without the entries whose token is not in the graph
C11_Without == SelectSeq(ingredient_list, LAMBDA r : canonical[r] \in artifact.graph)

\* C11: a pantry entry whose canonical token is absent from the vocabulary is
\* in no node, edge or clique, and the request ends as the request without
\* that entry ends: same threshold, same edges, same records, and an error
\* only where the list without the entry has the same (edgeless) subgraph.
C11_UnknownDropped ==
    Computed =>
        /\ \A t \in Range(ingredients) \ artifact.graph :
              /\ t \notin Range(pantry)
              /\ t \notin UNION subgraph
              /\ t \notin UNION cliques
              /\ \A i \in 1..Len(results) : t \notin results[i].ingredients
        /\ PMI_THRESHOLD = Alone(C11_Without).threshold
        /\ subgraph = Alone(C11_Without).subgraph
        /\ status \in {200, 500}
        /\ status = 200 => Range(results) = Alone(C11_Without).records
        /\ status = 500 => Alone(C11_Without).subgraph = {}

\* a clique returned for a pantry that holds a token with recorded scores
\* that the graph lacks
C11_Witness ==
    /\ Served
    /\ results # <<>>
    /\ \E t \in Range(ingredients) \ artifact.graph :
          t \in Vocabulary(artifact.pmi_scores)

\* C12: with the artifact file missing, an authenticated request is answered
\* 503 "Compatibility data not found", with no clique result, after a single
\* attempt to open the file.
C12_DataUnavailable ==
    (pc = "responded" /\ authenticated(token, users) /\ artifact.kind = "missing") =>
        /\ status = 503
        /\ detail = "Compatibility data not found"
        /\ results = <<>>
        /\ cliques = {}
        /\ loads = 1

C12_Witness ==
    /\ pc = "responded"
    /\ authenticated(token, users)
    /\ artifact.kind = "missing"
    /\ Len(ingredient_list) >= 2
    /\ status = 503

\* the artifact file is there and is not the pickle of a table and a graph
C13_Malformed == artifact.kind \in {"unpicklable", "misshapen", "unscored"}

\* C13: with a malformed artifact, be it no pickle at all or the pickle of
\* something other than a table and a graph, an authenticated request is
\* answered with an internal error, 500, and no result.
C13_DataCorrupt ==
    (pc = "responded" /\ authenticated(token, users) /\ C13_Malformed) =>
        /\ status = 500
        /\ results = <<>>

RECURSIVE C15_Distinct(_, _)
C15_Distinct(list, seen) ==
    IF list = <<>> THEN <<>>
    ELSE IF canonical[Head(list)] \in seen THEN C15_Distinct(Tail(list), seen)
    ELSE <<Head(list)>> \o C15_Distinct(Tail(list), seen \cup {canonical[Head(list)]})

\* C15: a request whose list repeats a canonical token has the threshold, the
\* edges and the records of the request without the repeated entries.
C15_DuplicatesAddNothing ==
    Computed =>
        \A d \in {Alone(C15_Distinct(ingredient_list, {}))} :
            /\ PMI_THRESHOLD = d.threshold
            /\ subgraph = d.subgraph
            /\ status = 200 => Range(results) = d.records

\* the response of request r is the response to its body, its token and the
\* artifact, whatever the other request is doing
C16_AsAlone(r) ==
    LET q == reqs[r]
        alone == Alone(q.body)
    IN  IF ~authenticated(q.token, users) THEN q.status = 401 /\ q.results = <<>>
        ELSE IF artifact.kind = "missing" THEN q.status = 503 /\ q.results = <<>>
        ELSE IF artifact.kind \in {"unpicklable", "misshapen"}
        THEN q.status = 500 /\ q.results = <<>>
        ELSE IF artifact.kind = "unscored" /\ Len(alone.pantry) >= 2
        THEN q.status = 500 /\ q.results = <<>>
        ELSE /\ q.status \in {200, 500}
             /\ q.status = 500 => (alone.subgraph = {} /\ q.results = <<>>)
             /\ q.status = 200 =>
                    /\ Range(q.results) = alone.records
                    /\ Len(q.results) = Cardinality(alone.records)

\* C16: the table and the graph a request has loaded stay what the artifact
\* file holds, and a request served while another one is in progress gets the
\* response it gets when served alone.
C16_NoSharedState ==
    /\ \A f \in Req : locals[f].data \in {NotLoaded, artifact}
    /\ \A r \in Req : reqs[r].pc = "responded" => C16_AsAlone(r)

\* a request answered with a clique while a request with another body has
\* loaded the artifact and not yet computed
C16_Witness ==
    \E r, o \in Req :
        /\ r # o
        /\ reqs[r].pc = "responded"
        /\ reqs[r].results # <<>>
        /\ reqs[o].pc = "compute"
        /\ reqs[o].body # reqs[r].body
        /\ locals[o].ingredients # locals[r].ingredients

\* a stoplist word, a run of digits, or text in parentheses
C17_Unit(u) ==
    \/ \E k \in 1..Len(forms) : forms[k] = u
    \/ CharsOf(u) \subseteq CharsOf(Digits)
    \/ /\ Len(u) >= 2
       /\ CharAt(u, 1) = "("
       /\ CharAt(u, Len(u)) = ")"
       /\ CharsOf(SubSeq(u, 2, Len(u) - 1)) \cap {"(", ")"} = {}

\* s is made up of such units, with blanks between them
RECURSIVE C17_StoplistOnly(_)
C17_StoplistOnly(s) ==
    IF s = "" THEN TRUE
    ELSE IF CharAt(s, 1) = " " THEN C17_StoplistOnly(Tail(s))
    ELSE \E n \in 1..Len(s) :
            /\ n = Len(s) \/ CharAt(s, n + 1) = " "
            /\ C17_Unit(SubSeq(s, 1, n))
            /\ C17_StoplistOnly(SubSeq(s, n + 1, Len(s)))

\* C17: the handler gets a token for every ingredient of the request; an
\* ingredient made up only of stoplist words, parenthesised text and digit
\* runs gets the empty token; and the empty token is dropped with the unknown
\* tokens: it is in no pantry, edge or clique, and the only request that
\* fails is one whose subgraph has no edge.
C17_TotalAndEmptyToken ==
    pc = "responded" =>
        /\ Len(ingredients) = Len(ingredient_list)
        /\ \A i \in 1..Len(ingredient_list) :
              /\ ingredients[i] \in STRING
              /\ C17_StoplistOnly(lower(ingredient_list[i])) => ingredients[i] = ""
        /\ (Computed /\ "" \in Range(ingredients)) =>
              /\ "" \notin Range(pantry)
              /\ "" \notin UNION subgraph
              /\ "" \notin UNION cliques
              /\ status \in {200, 500}
              /\ status = 500 => subgraph = {}

\* a clique returned for a pantry with an ingredient of two stoplist words and
\* a number
C17_Witness ==
    /\ Served
    /\ results # <<>>
    /\ \E i \in 1..Len(ingredient_list) :
          ingredient_list[i] = "Bone-In 12 Kosher" /\ ingredients[i] = ""

\* the score looked up for the tokens a and b in this order, if there is one
C18_Lookup(a, b) ==
    IF sorted_pair(a, b) \in DOMAIN artifact.pmi_scores
    THEN {artifact.pmi_scores[sorted_pair(a, b)]} ELSE {}

\* the list with the entries at the positions i and j exchanged
C18_Swap(list, i, j) ==
    [k \in 1..Len(list) |-> IF k = i THEN list[j] ELSE IF k = j THEN list[i] ELSE list[k]]

\* C18: the lookup of a pair gives the same in either order of its tokens,
\* and the request with two neighbouring entries of its list exchanged (every
\* permutation is a product of such exchanges) has the same threshold, the
\* same edges and the same set of records.
C18_OrderIndependent ==
    Computed =>
        /\ \A a, b \in Range(ingredients) : C18_Lookup(a, b) = C18_Lookup(b, a)
        /\ \A i \in 1..(Len(ingredient_list) - 1) :
              \A other \in {Alone(C18_Swap(ingredient_list, i, i + 1))} :
                  /\ other.threshold = PMI_THRESHOLD
                  /\ other.subgraph = subgraph
                  /\ status = 200 => other.records = Range(results)

\* a returned pair whose tokens the request lists in the reverse of the
\* order of the table's key, beside a second returned clique
C18_Witness ==
    /\ Served
    /\ Len(results) >= 2
    /\ \E i, j \in 1..Len(ingredients) :
          /\ i < j
          /\ ~str_le(ingredients[i], ingredients[j])
          /\ \E k \in 1..Len(results) :
                {ingredients[i], ingredients[j]} \subseteq results[k].ingredients

\* the least member of a non-empty set of positions
C19_First(S) == CHOOSE k \in S : \A m \in S : k <= m

\* the patterns that match the whole of s, by position in similar_map
C19_Matching(s) == {k \in 1..Len(similar_map) : fullmatch_suffix(similar_map[k][1], s)}

\* the entries of replacements equal to s, by position
C19_Equal(s) == {k \in 1..Len(replacements) : replacements[k][1] = s}

\* C19: the token is obtained from the cleaned string by replacing it with the
\* replacement of the first pattern, in declaration order, that matches the
\* whole of it (no pattern is applied when none matches, and none after the
\* first), and then replacing the outcome with the value of the first
\* exact-string entry equal to it (none when no entry is equal to it): the
\* exact-string entries are compared with what the pattern step has left, not
\* with the cleaned string.
C19_RuleOrder ==
    canon_pc = "once" =>
        \A mid \in {IF C19_Matching(cleaned) = {} THEN cleaned
                     ELSE similar_map[C19_First(C19_Matching(cleaned))][2]} :
            canon = IF C19_Equal(mid) = {} THEN mid
                    ELSE replacements[C19_First(C19_Equal(mid))][2]

\* a pattern and then an exact-string entry applied, to "greek yogurt"
C19_Witness ==
    /\ canon_pc = "once"
    /\ cleaned = "greek yogurt"
    /\ C19_Matching(cleaned) # {}
    /\ canon = "yoghurt"

\* C20: any two members of a returned clique have a recorded score strictly
\* greater than the request's threshold (so no pair of a returned clique is
\* counted as 0), the threshold is at least 0.3 when a clique is returned,
\* and every returned score is at least 0.3.
C20_PairsAboveThreshold ==
    Served =>
        /\ \A i \in 1..Len(results) :
              /\ \A a, b \in results[i].ingredients :
                    a # b => (Recorded(a, b) /\ Score(a, b) > PMI_THRESHOLD)
              /\ results[i].score >= Hundredths(30)
        /\ results # <<>> => PMI_THRESHOLD >= Hundredths(30)

\* a returned triangle, with the threshold at its floor while a recorded
\* score of the pantry lies below the floor
C20_Witness ==
    /\ Served
    /\ PMI_THRESHOLD = Hundredths(30)
    /\ \E i \in 1..Len(results) : results[i].size = 3
    /\ \E i, j \in 1..Len(pantry) :
          Recorded(pantry[i], pantry[j]) /\ Score(pantry[i], pantry[j]) < Hundredths(30)

\* the unordered pairs of distinct pantry tokens that have a recorded score
C21_RecordedPairs ==
    {e \in SUBSET Range(pantry) :
        Cardinality(e) = 2 /\ \E a, b \in e : a # b /\ Recorded(a, b)}

\* C21: when exactly one unordered pair of the pantry's tokens has a recorded
\* score, the threshold is at least that score, the subgraph has no edge, no
\* clique is found and none is returned.
C21_SinglePairEmpty ==
    (Computed /\ Cardinality(C21_RecordedPairs) = 1) =>
        /\ \A e \in C21_RecordedPairs : \A a, b \in e :
              a # b => Score(a, b) <= PMI_THRESHOLD
        /\ subgraph = {}
        /\ cliques = {}
        /\ results = <<>>

\* a pantry of two known tokens, one of them supplied twice, with the
\* recorded score 0.8, answered with an empty list
C21_Witness ==
    /\ Served
    /\ Len(pantry) = 3
    /\ Cardinality(C21_RecordedPairs) = 1
    /\ \E e \in C21_RecordedPairs : \E a, b \in e : a # b /\ Score(a, b) = Hundredths(80)
    /\ PMI_THRESHOLD = Hundredths(80)
    /\ results = <<>>

-----------------------------------------------------------------------------
(* Part 5: the database handlers. A table is the set of its rows. The      *)
(* database is SQLite as database.py opens it: foreign keys are declared   *)
(* but not enforced (no PRAGMA foreign_keys), unique indexes are enforced. *)
(* Every request has a session of its own (get_db), which is closed        *)
(* without a commit when the handler raises.                               *)

\* the greatest id a table hands out before the model stops inserting
MaxRows == 3

\* utils.py:49-50; the salt of bcrypt is left out
hash_password(password) == <<"bcrypt", password>>

\* utils.py:52-53
verify_password(plain, hashed) == hashed = hash_password(plain)

\* parent_id = None
NoParent == 0

REGULAR == "regular"

ADMIN == "admin"

\* decode_access_token of the bearer tokens a client may send: issued to user
\* 1, 2 or 3 at login, or not decodable
DbTokens ==
    {[good |-> TRUE, user_id |-> u] : u \in 1..MaxRows} \cup {[good |-> FALSE, user_id |-> 1]}

Tables == [users |-> user_rows, pantry |-> pantry_rows, comments |-> comment_rows]

\* INTEGER PRIMARY KEY of SQLite: one more than the greatest id in the table
NextId(rows) ==
    IF rows = {} THEN 1
    ELSE (CHOOSE i \in {r.id : r \in rows} : \A r \in rows : r.id <= i) + 1

\* db.query(Model).filter(Model.id == id).first(): the rows found, at most one
ById(rows, id) == {r \in rows : r.id = id}

\* A response: the handler, the HTTP status sent, and the status named by the
\* raise statement that ended the handler (0 when it returned). before keeps
\* the tables as the responding step found them.
Replied(op, code, from) ==
    /\ reply' = [op |-> op, status |-> code, raised |-> from]
    /\ before' = Tables

\* return ...: 200, no route sets another status_code
Succeeded(op) == Replied(op, 200, 0)

\* raise HTTPException(status_code=code) outside any try: FastAPI answers code
Raised(op, code) == Replied(op, code, code)

\* raise HTTPException(status_code=code) inside "try: ... except Exception as
\* e: db.rollback(); raise HTTPException(status_code=500, ...)": HTTPException
\* is an Exception, so the handler catches its own rejection and answers 500
Caught(op, code) == Replied(op, 500, code)

alice == [id |-> 1, username |-> "alice", email |-> "alice@x", hashed_password |-> hash_password("pw1"),
          role |-> REGULAR]

bob == [id |-> 2, username |-> "bob", email |-> "bob@x", hashed_password |-> hash_password("pw2"),
        role |-> ADMIN]

RecipeIds == {"r1", "r2"}

\* main.py:1154-1224. The comment is committed (1193-1195) before its author
\* is looked up (1197-1199).
create_comment(tok, recipe_id, parent_id) ==
    /\ IF ~tok.good
       THEN Caught("create_comment", 401) /\ UNCHANGED comment_rows
       ELSE IF parent_id # NoParent /\ ById(comment_rows, parent_id) = {}
       THEN Caught("create_comment", 404) /\ UNCHANGED comment_rows
       ELSE IF parent_id # NoParent
               /\ \E parent \in ById(comment_rows, parent_id) : parent.recipe_id # recipe_id
       THEN Caught("create_comment", 400) /\ UNCHANGED comment_rows
       ELSE /\ NextId(comment_rows) <= MaxRows
            /\ comment_rows' = comment_rows \cup
                    {[id |-> NextId(comment_rows), user_id |-> tok.user_id,
                      recipe_id |-> recipe_id, parent_id |-> parent_id,
                      is_deleted |-> FALSE]}
            /\ IF ById(user_rows, tok.user_id) = {}
               THEN Caught("create_comment", 404)
               ELSE Succeeded("create_comment")
    /\ UNCHANGED <<user_rows, pantry_rows, calls>>

\* main.py:1340: the bulk delete, which does not go through the cascade of
\* the relationship
deleted_by_hard_delete(rows, comment_id) ==
    {r \in rows : r.id = comment_id \/ r.parent_id = comment_id}

\* main.py:1308-1348. user.role of a user that is no longer stored is an
\* AttributeError, answered as 500 like every other exception.
hard_delete_comment(tok, comment_id) ==
    /\ IF ~tok.good
       THEN Caught("hard_delete_comment", 401) /\ UNCHANGED comment_rows
       ELSE IF ById(comment_rows, comment_id) = {}
       THEN Caught("hard_delete_comment", 404) /\ UNCHANGED comment_rows
       ELSE LET db_comment == CHOOSE c \in ById(comment_rows, comment_id) : TRUE
                user == ById(user_rows, tok.user_id)
            IN  IF db_comment.user_id # tok.user_id /\ user = {}
                THEN Replied("hard_delete_comment", 500, 500) /\ UNCHANGED comment_rows
                ELSE IF db_comment.user_id # tok.user_id /\ \E u \in user : u.role # ADMIN
                THEN Caught("hard_delete_comment", 403) /\ UNCHANGED comment_rows
                ELSE /\ comment_rows' =
                            comment_rows \ deleted_by_hard_delete(comment_rows, comment_id)
                     /\ Succeeded("hard_delete_comment")
    /\ UNCHANGED <<user_rows, pantry_rows, calls>>

\* main.py:294-343
delete_user(tok, user_id) ==
    /\ IF ~tok.good
       THEN Caught("delete_user", 401) /\ UNCHANGED <<user_rows, pantry_rows, comment_rows>>
       ELSE IF tok.user_id # user_id
       THEN Caught("delete_user", 403) /\ UNCHANGED <<user_rows, pantry_rows, comment_rows>>
       ELSE IF ById(user_rows, user_id) = {}
       THEN Caught("delete_user", 404) /\ UNCHANGED <<user_rows, pantry_rows, comment_rows>>
       ELSE /\ pantry_rows' = {r \in pantry_rows : r.user_id # user_id}
            /\ comment_rows' =
                    {IF c.user_id = user_id THEN [c EXCEPT !.is_deleted = TRUE] ELSE c :
                        c \in comment_rows}
            /\ user_rows' = user_rows \ ById(user_rows, user_id)
            /\ Succeeded("delete_user")
    /\ UNCHANGED calls

DbQuiet == UNCHANGED <<canon_vars, env_vars, request_vars, handler_vars, conc_vars>>

CommentsInit ==
    /\ CanonIdle
    /\ CompatIdle
    /\ user_rows = {alice, bob}
    /\ pantry_rows = {}
    /\ comment_rows = {}
    /\ calls = [w \in Worker |-> NoCall]
    /\ reply = NoReply
    /\ before = NoTables

\* the tokens in circulation: issued at login to alice or bob
IssuedTokens == {t \in DbTokens : t.good => t.user_id \in {alice.id, bob.id}}

CommentsNext ==
    \/ \E tok \in IssuedTokens, recipe_id \in RecipeIds,
           parent_id \in {NoParent} \cup (1..MaxRows) :
            create_comment(tok, recipe_id, parent_id) /\ DbQuiet
    \/ \E tok \in IssuedTokens, comment_id \in 1..MaxRows :
            hard_delete_comment(tok, comment_id) /\ DbQuiet
    \/ \E tok \in IssuedTokens, user_id \in 1..MaxRows : delete_user(tok, user_id) /\ DbQuiet

SpecComments == CommentsInit /\ [][CommentsNext]_vars

-----------------------------------------------------------------------------
(* The pantry handlers. add_to_pantry is a plain def served by the thread  *)
(* pool: between its queries and its commit another request may run.       *)

\* the ids of the rows of the ingredients table
IngredientRows == {1, 2}

\* the workers that have passed the checks of add_to_pantry and not committed
pending == {w \in Worker : calls[w].pc # "idle"}

\* main.py:420-460: the token, then the three queries. 401 and 403 are raised
\* before the try; the 404s and the 400 inside it.
add_to_pantry_check(w, tok, user_id, ingredient_id) ==
    /\ calls[w].pc = "idle"
    /\ IF ~tok.good
       THEN Raised("add_to_pantry", 401) /\ UNCHANGED calls
       ELSE IF tok.user_id # user_id
       THEN Raised("add_to_pantry", 403) /\ UNCHANGED calls
       ELSE IF ById(user_rows, user_id) = {}
       THEN Caught("add_to_pantry", 404) /\ UNCHANGED calls
       ELSE IF ingredient_id \notin IngredientRows
       THEN Caught("add_to_pantry", 404) /\ UNCHANGED calls
       ELSE IF \E r \in pantry_rows : r.user_id = user_id /\ r.ingredient_id = ingredient_id
       THEN Caught("add_to_pantry", 400) /\ UNCHANGED calls
       ELSE /\ NextId(pantry_rows) + Cardinality(pending) <= MaxRows
            /\ calls' = [calls EXCEPT ![w] = [pc |-> "commit", user_id |-> user_id,
                                              ingredient_id |-> ingredient_id]]
            /\ UNCHANGED <<reply, before>>
    /\ UNCHANGED <<user_rows, pantry_rows, comment_rows>>

\* models.py:52-60 and the migration, lines 53-61: the pantry table has a
\* primary key and two foreign keys, which SQLite does not enforce; no
\* constraint refuses an insert
pantry_insert_refused(rows, user_id, ingredient_id) == FALSE

\* main.py:463-481: db.add, db.commit, and the IntegrityError branch
add_to_pantry_commit(w) ==
    /\ calls[w].pc = "commit"
    /\ IF pantry_insert_refused(pantry_rows, calls[w].user_id, calls[w].ingredient_id)
       THEN Raised("add_to_pantry", 400) /\ UNCHANGED pantry_rows
       ELSE /\ pantry_rows' = pantry_rows \cup
                    {[id |-> NextId(pantry_rows), user_id |-> calls[w].user_id,
                      ingredient_id |-> calls[w].ingredient_id]}
            /\ Succeeded("add_to_pantry")
    /\ calls' = [calls EXCEPT ![w] = NoCall]
    /\ UNCHANGED <<user_rows, comment_rows>>

\* main.py:497-538
remove_from_pantry(tok, pantry_id) ==
    /\ IF ~tok.good
       THEN Caught("remove_from_pantry", 401) /\ UNCHANGED pantry_rows
       ELSE IF ById(pantry_rows, pantry_id) = {}
       THEN Caught("remove_from_pantry", 404) /\ UNCHANGED pantry_rows
       ELSE IF \E pantry_item \in ById(pantry_rows, pantry_id) : pantry_item.user_id # tok.user_id
       THEN Caught("remove_from_pantry", 403) /\ UNCHANGED pantry_rows
       ELSE /\ pantry_rows' = pantry_rows \ ById(pantry_rows, pantry_id)
            /\ Succeeded("remove_from_pantry")
    /\ UNCHANGED <<user_rows, comment_rows, calls>>

PantryInit ==
    /\ CanonIdle
    /\ CompatIdle
    /\ user_rows = {alice, bob}
    /\ pantry_rows = {}
    /\ comment_rows = {[id |-> 1, user_id |-> alice.id, recipe_id |-> "r1",
                        parent_id |-> NoParent, is_deleted |-> FALSE]}
    /\ calls = [w \in Worker |-> NoCall]
    /\ reply = NoReply
    /\ before = NoTables

PantryNext ==
    \/ \E w \in Worker, tok \in IssuedTokens, user_id \in {alice.id, bob.id},
           ingredient_id \in 1..MaxRows :
            add_to_pantry_check(w, tok, user_id, ingredient_id) /\ DbQuiet
    \/ \E w \in Worker : add_to_pantry_commit(w) /\ DbQuiet
    \/ \E tok \in IssuedTokens, pantry_id \in 1..MaxRows :
            remove_from_pantry(tok, pantry_id) /\ DbQuiet
    \/ \E tok \in IssuedTokens, user_id \in 1..MaxRows : delete_user(tok, user_id) /\ DbQuiet

SpecPantry == PantryInit /\ [][PantryNext]_vars

-----------------------------------------------------------------------------
(* The user handlers. create_user and update_user are plain defs served by *)
(* the thread pool: each runs its queries in a session of its own, and     *)
(* another request may commit before it does. What a session has assigned  *)
(* and not committed is held in calls; a handler that raises drops it.     *)

carol == [username |-> "carol", email |-> "carol@x", password |-> "pw3"]

\* the bodies of POST /users/: a new name and email, a stored name, a stored email
UserCreates ==
    {carol, [carol EXCEPT !.username = alice.username], [carol EXCEPT !.email = bob.email]}

\* a dict whose keys are chosen among the pairs given
Dicts(pairs) ==
    {d \in UNION {[keys -> {p[2] : p \in pairs}] : keys \in SUBSET {p[1] : p \in pairs}} :
        \A k \in DOMAIN d : <<k, d[k]>> \in pairs}

\* user_update.model_dump(exclude_unset=True): the fields the body sets
UserUpdates ==
    Dicts({<<"username", carol.username>>, <<"email", carol.email>>,
           <<"current_password", "">>, <<"current_password", "pw1">>,
           <<"new_password", carol.password>>})

\* (variant: the users table without its unique indexes)
unique_violation_unindexed(rows) == FALSE

\* the unique indexes ix_users_username and ix_users_email (migration, lines
\* 50-52; models.py:15-16): a row may not repeat a username or an email
unique_violation(rows) ==
    \E r1, r2 \in rows : r1.id # r2.id /\ (r1.username = r2.username \/ r1.email = r2.email)

\* a reply of the step that commits: the call that committed is kept with it
Committed(op, code, from, call) ==
    /\ reply' = [op |-> op, status |-> code, raised |-> from, call |-> call]
    /\ before' = Tables

\* main.py:186-200: the query for a stored username or email, then db.add
create_user_check(w, user) ==
    /\ calls[w].pc = "idle"
    /\ IF \E r \in user_rows : r.username = user.username \/ r.email = user.email
       THEN Raised("create_user", 400) /\ UNCHANGED calls
       ELSE /\ NextId(user_rows) + Cardinality({v \in pending : calls[v].op = "create_user"})
                    <= MaxRows
            /\ calls' = [calls EXCEPT ![w] =
                            [pc |-> "commit", op |-> "create_user", user |-> user]]
            /\ UNCHANGED <<reply, before>>
    /\ UNCHANGED <<user_rows, pantry_rows, comment_rows>>

\* main.py:201-211: db.commit() and the IntegrityError branch
create_user_commit(w) ==
    /\ calls[w].pc = "commit"
    /\ calls[w].op = "create_user"
    /\ LET db_user == [id |-> NextId(user_rows), username |-> calls[w].user.username,
                       email |-> calls[w].user.email,
                       hashed_password |-> hash_password(calls[w].user.password),
                       role |-> REGULAR]
       IN  IF unique_violation(user_rows \cup {db_user})
           THEN Committed("create_user", 400, 400, calls[w]) /\ UNCHANGED user_rows
           ELSE /\ user_rows' = user_rows \cup {db_user}
                /\ Committed("create_user", 200, 0, calls[w])
    /\ calls' = [calls EXCEPT ![w] = NoCall]
    /\ UNCHANGED <<pantry_rows, comment_rows>>

\* (variant: the request is taken at its word)
current_password_wrong_unverified(update_data, user) == FALSE

\* main.py:247-253
current_password_wrong(update_data, user) ==
    /\ "current_password" \in DOMAIN update_data
    /\ ~verify_password(update_data["current_password"], user.hashed_password)

\* main.py:240-245; "" is the only str that is not truthy
current_password_missing(update_data) ==
    /\ "email" \in DOMAIN update_data \/ "new_password" \in DOMAIN update_data
    /\ ~("current_password" \in DOMAIN update_data /\ update_data["current_password"] # "")

\* main.py:255-280: the attributes the handler assigns to the loaded user.
\* The session writes an attribute only if its value differs from the one
\* loaded; a bcrypt hash is salted anew and always differs.
assigned(update_data, user) ==
    [k \in {f \in {"username", "email"} :
                f \in DOMAIN update_data /\ update_data[f] # user[f]}
            \cup {f \in {"hashed_password"} : "new_password" \in DOMAIN update_data} |->
        IF k = "hashed_password" THEN hash_password(update_data["new_password"])
        ELSE update_data[k]]

\* main.py:214-280: everything before db.commit()
update_user_check(w, tok, user_id, update_data) ==
    /\ calls[w].pc = "idle"
    /\ IF ~tok.good
       THEN Raised("update_user", 401) /\ UNCHANGED calls
       ELSE IF tok.user_id # user_id
       THEN Raised("update_user", 403) /\ UNCHANGED calls
       ELSE IF ById(user_rows, user_id) = {}
       THEN Raised("update_user", 404) /\ UNCHANGED calls
       ELSE LET user == CHOOSE u \in ById(user_rows, user_id) : TRUE
            IN  IF current_password_missing(update_data)
                THEN Raised("update_user", 400) /\ UNCHANGED calls
                ELSE IF current_password_wrong(update_data, user)
                THEN Raised("update_user", 401) /\ UNCHANGED calls
                ELSE IF "username" \in DOMAIN update_data
                        /\ \E r \in user_rows :
                                r.username = update_data["username"] /\ r.id # user_id
                THEN Raised("update_user", 400) /\ UNCHANGED calls
                ELSE IF "email" \in DOMAIN update_data
                        /\ \E r \in user_rows :
                                r.email = update_data["email"] /\ r.id # user_id
                THEN Raised("update_user", 400) /\ UNCHANGED calls
                ELSE /\ calls' = [calls EXCEPT ![w] =
                            [pc |-> "commit", op |-> "update_user", token |-> tok,
                             user |-> user, update_data |-> update_data,
                             dirty |-> assigned(update_data, user)]]
                     /\ UNCHANGED <<reply, before>>
    /\ UNCHANGED <<user_rows, pantry_rows, comment_rows>>

\* UPDATE users SET <the assigned attributes> WHERE id = <the loaded id>
flushed(rows, call) ==
    {IF r.id = call.user.id
     THEN [f \in DOMAIN r |-> IF f \in DOMAIN call.dirty THEN call.dirty[f] ELSE r[f]]
     ELSE r : r \in rows}

\* main.py:282-292: db.commit() and the IntegrityError branch
update_user_commit(w) ==
    /\ calls[w].pc = "commit"
    /\ calls[w].op = "update_user"
    /\ IF unique_violation(flushed(user_rows, calls[w]))
       THEN Committed("update_user", 400, 400, calls[w]) /\ UNCHANGED user_rows
       ELSE /\ user_rows' = flushed(user_rows, calls[w])
            /\ Committed("update_user", 200, 0, calls[w])
    /\ calls' = [calls EXCEPT ![w] = NoCall]
    /\ UNCHANGED <<pantry_rows, comment_rows>>

UsersInit ==
    /\ CanonIdle
    /\ CompatIdle
    /\ user_rows = {alice, bob}
    /\ pantry_rows = {}
    /\ comment_rows = {}
    /\ calls = [w \in Worker |-> NoCall]
    /\ reply = NoReply
    /\ before = NoTables

UsersNext ==
    \/ \E w \in Worker, user \in UserCreates : create_user_check(w, user) /\ DbQuiet
    \/ \E w \in Worker : create_user_commit(w) /\ DbQuiet
    \/ \E w \in Worker, tok \in IssuedTokens, user_id \in {alice.id, bob.id},
           update_data \in UserUpdates :
            update_user_check(w, tok, user_id, update_data) /\ DbQuiet
    \/ \E w \in Worker : update_user_commit(w) /\ DbQuiet

SpecUsers == UsersInit /\ [][UsersNext]_vars

-----------------------------------------------------------------------------
(* C22                                                                     *)

\* C22: after hard_delete_comment has succeeded for a comment, the comment
\* and every reply under it, at every depth, are gone; and every comment that
\* is stored with a parent_id refers to a comment that is stored.
C22_Gone ==
    (reply.op = "hard_delete_comment" /\ reply.status = 200) =>
        \A c \in comment_rows :
            c.parent_id \notin {r.id : r \in before.comments \ comment_rows}

C22_ThreadDeleted ==
    /\ C22_Gone
    /\ \A c \in comment_rows :
            c.parent_id # NoParent => ById(comment_rows, c.parent_id) # {}

-----------------------------------------------------------------------------
(* C26                                                                     *)

\* C26: whenever create_comment answers with an error, the comments table is
\* as it was before the request, also when the token is valid and its user
\* has been deleted by delete_user.
C26_ErrorStoresNothing ==
    (reply.op = "create_comment" /\ reply.status # 200) => comment_rows = before.comments

-----------------------------------------------------------------------------
(* C23                                                                     *)

\* the ids of the users whose email or password hash the last responding step
\* has changed
C23_Changed ==
    {r.id : r \in {x \in before.users :
        \E y \in user_rows :
            y.id = x.id /\ (y.email # x.email \/ y.hashed_password # x.hashed_password)}}

\* the request that was committed carried the token of user u and a
\* current_password that verifies against the hash the handler loaded
C23_Authorised(u) ==
    /\ reply.op = "update_user"
    /\ reply.status = 200
    /\ reply.call.token.good
    /\ reply.call.token.user_id = u
    /\ "current_password" \in DOMAIN reply.call.update_data
    /\ verify_password(reply.call.update_data["current_password"],
                       reply.call.user.hashed_password)

\* C23: the email and the password hash of a user change only through an
\* update_user request that carries the user's own token and a
\* current_password that verifies; and when update_user rejects a request,
\* the users table is as it was, whatever the handler had assigned before.
C23_PasswordGuardsAccount ==
    /\ \A u \in C23_Changed : C23_Authorised(u)
    /\ (reply.op = "update_user" /\ reply.status # 200) => user_rows = before.users

\* a password change has gone through, and a later commit that carried a new
\* password together with a taken username has been refused
C23_Witness ==
    /\ reply.op = "update_user"
    /\ reply.status = 400
    /\ "call" \in DOMAIN reply
    /\ "hashed_password" \in DOMAIN reply.call.dirty
    /\ user_rows = before.users
    /\ \E r \in user_rows :
            r.id = alice.id /\ r.hashed_password = hash_password(carol.password)

-----------------------------------------------------------------------------
(* C24                                                                     *)

\* the request committed by the last reply names a username or an email that
\* another stored user had
C24_Collides ==
    /\ "call" \in DOMAIN reply
    /\ IF reply.op = "create_user"
       THEN \E r \in before.users :
                r.username = reply.call.user.username \/ r.email = reply.call.user.email
       ELSE \E r \in before.users, f \in DOMAIN reply.call.dirty \cap {"username", "email"} :
                r.id # reply.call.user.id /\ r[f] = reply.call.dirty[f]

\* C24: under every interleaving of create_user and update_user no two users
\* share a username or an email; a request that collides is answered 400 and
\* leaves the users table as it was.
C24_UniqueUsers ==
    /\ \A r1, r2 \in user_rows :
            r1.id # r2.id => (r1.username # r2.username /\ r1.email # r2.email)
    /\ (reply.op \in {"create_user", "update_user"} /\ reply.raised = 400) =>
            (reply.status = 400 /\ user_rows = before.users)
    /\ (reply.op \in {"create_user", "update_user"} /\ C24_Collides) =>
            (reply.status = 400 /\ user_rows = before.users)

\* two requests passed their queries for the same free name; the one that
\* committed second has been refused by the unique index
C24_Witness ==
    /\ reply.op = "create_user"
    /\ reply.status = 400
    /\ C24_Collides
    /\ \E r \in user_rows : r.id = alice.id /\ r.username = reply.call.user.username
    /\ user_rows = before.users

-----------------------------------------------------------------------------
(* C25                                                                     *)

\* C25: whatever the interleaving of add_to_pantry requests, a pantry holds
\* at most one entry per ingredient, and a request for an ingredient that is
\* already in the pantry is answered 400, "Ingredient already in pantry.".
C25_Duplicates ==
    {p \in pantry_rows \X pantry_rows :
        p[1].id # p[2].id /\ p[1].user_id = p[2].user_id
        /\ p[1].ingredient_id = p[2].ingredient_id}

\* the first part of C25
C25_NoDuplicates == C25_Duplicates = {}

\* the second part of C25: the answer to a request for a stored ingredient
C25_DuplicateAnswered400 ==
    (reply.op = "add_to_pantry" /\ reply.raised = 400) => reply.status = 400

C25_OneEntryPerIngredient == C25_NoDuplicates /\ C25_DuplicateAnswered400

-----------------------------------------------------------------------------
(* C27                                                                     *)

C27_Rejected ==
    reply.op \in {"delete_user", "remove_from_pantry"} /\ reply.raised \in {401, 403, 404}

\* C27: delete_user and remove_from_pantry answer 403 to a valid token of
\* another user, 401 to an invalid token and 404 to a missing target, and in
\* each of these cases the users, pantry and comments tables are unchanged.
C27_OwnerOnly ==
    C27_Rejected => (reply.status = reply.raised /\ Tables = before)

\* the part of C27 about the tables alone
C27_RejectionStoresNothing == C27_Rejected => Tables = before


====
